---- MODULE Spec2Model ----
(***************************************************************************)
(* A model of src/src/main.rs of veebull/flight-search-bot: the Telegram   *)
(* delivery functions with their rate-limit retry loop, the history-based  *)
(* duplicate check, and the polling loop of main with its statistics.      *)
(*                                                                         *)
(* Every await of the source is a suspension point; one action takes the   *)
(* program from one suspension point to the next.  Durations are in        *)
(* milliseconds.  An Option is a sequence of length 0 or 1.  A text is a   *)
(* sequence of tokens, so that `contains` is a real substring test.        *)
(***************************************************************************)
EXTENDS Integers, Sequences, FiniteSets, TLC

(***************************************************************************)
(* Bounds of the model.                                                    *)
(***************************************************************************)
\* dates in the longest configured range
MaxDates == 2
\* search cycles followed from process start
MaxCycles == 2
\* extra results beyond the verbose cap that a search may return
MaxExtraFlights == 1
\* topics in the longest list given to the multi-topic send
MaxTopics == 2

(***************************************************************************)
(* Program constants.                                                      *)
(***************************************************************************)
max_retries == 5
initial_delay == 1
\* Duration::from_millis(1000): the sleep after a successful call
SuccessCooldownMs == 1000
\* the `i >= 5` cap on verbose per-flight messages
VerboseCap == 5
\* the history limit passed to get_previous_messages
HistoryLimit == 100
\* hours_interval, also the argument of Duration::from_secs for check_interval
hours_interval == 6
\* Duration::from_secs(1) between two dates
PacingSecs == 1
\* status.as_u16() == 429
StatusTooManyRequests == 429

VARIABLES
    \* ------------------------------------------------------ configuration
    enable_telegram,    \* token and chat id both non-empty
    enable_airlabs,     \* AirLabs key non-empty
    dates,              \* date_range(start_date, end_date): sequence of day numbers
    \* ------------------------------------------------------ main
    pc,                 \* the suspension point main is at
    cycle,              \* number of the cycle being run (1-based)
    stats,              \* SearchStatistics
    status_message_id,  \* Option<String>
    date_idx,           \* index in dates of the date being handled (1-based)
    flights,            \* the result list of the date being handled
    flight_idx,         \* index of the flight being handled (0-based, as enumerate)
    has_seat_info,      \* the flag of the AirLabs message being sent
    \* ------------------------------------------------------ delivery call
    ch_kind,            \* "send" | "send_with_id" | "edit" | "none"
    ch_st,              \* "idle" | "calling" | "backoff" | "cooldown" | "returned"
    ch_req,             \* [topic, text, message_id]
    retry_count,
    ch_result,          \* Result of the call
    \* ------------------------------------------------------ duplicate check
    g_st,               \* "idle" | "listing" | "fetching"
    g_cand,             \* message_text looked for
    g_ids,              \* previous_messages
    g_idx,              \* position in previous_messages (1-based)
    g_skipped,          \* the lookup has passed over a message without reading its text
    \* ------------------------------------------------------ backend
    found_thread,       \* messages of the results topic: [id, text], oldest first
    \* ------------------------------------------------------ observation
    resps,              \* responses received by a delivery call examined alone
    slept,              \* the sleeps that call has begun: [why, ms]
    calls,              \* underlying calls that call has issued
    search_log,         \* dates for which search_flights was called in this cycle
    handled_log,        \* dates whose handling, pacing delay included, is complete
    last_sleep,         \* duration of the sleep main itself is in, or took last
    exit_cause,         \* why main returned, "" while it runs
    g_last,             \* what was_message_sent_recently has just returned, and for what
    ch_last,            \* which delivery call has just returned, and whether with Ok
    \* ------------------------------------------------------ multi-topic send
    topic_ids,          \* the topic list given to send_telegram_multi_topic_notification
    topic_idx,          \* position in topic_ids (1-based)
    topic_log,          \* the sends it has completed: [topic, ok]
    search_outcome,     \* what search_flights returned for the date being handled
    tally               \* calls made for the date being handled and in this cycle

cfgVars == <<enable_telegram, enable_airlabs, dates>>
mainVars == <<pc, cycle, stats, status_message_id, date_idx, flights, flight_idx, has_seat_info>>
chanVars == <<ch_kind, ch_st, ch_req, retry_count, ch_result>>
guardVars == <<g_st, g_cand, g_ids, g_idx, g_skipped>>
backendVars == <<found_thread>>
traceVars == <<resps, slept, calls>>
obsVars == <<search_log, handled_log, last_sleep, exit_cause, g_last, ch_last, search_outcome, tally>>
fanVars == <<topic_ids, topic_idx, topic_log>>
vars == <<cfgVars, mainVars, chanVars, guardVars, backendVars, traceVars, obsVars, fanVars>>

(***************************************************************************)
(* The state as one record, so that the code's control flow can be written *)
(* as functions from state to state: s is the state at a suspension point, *)
(* the result the state at the next one.                                   *)
(***************************************************************************)
Cur ==
    [pc |-> pc, cycle |-> cycle, stats |-> stats,
     status_message_id |-> status_message_id, date_idx |-> date_idx,
     flights |-> flights, flight_idx |-> flight_idx, has_seat_info |-> has_seat_info,
     ch_kind |-> ch_kind, ch_st |-> ch_st, ch_req |-> ch_req,
     retry_count |-> retry_count, ch_result |-> ch_result,
     g_st |-> g_st, g_cand |-> g_cand, g_ids |-> g_ids, g_idx |-> g_idx,
     g_skipped |-> g_skipped,
     found_thread |-> found_thread,
     resps |-> resps, slept |-> slept, calls |-> calls,
     search_log |-> search_log, handled_log |-> handled_log,
     last_sleep |-> last_sleep, exit_cause |-> exit_cause,
     g_last |-> g_last, ch_last |-> ch_last,
     search_outcome |-> search_outcome, tally |-> tally,
     topic_ids |-> topic_ids, topic_idx |-> topic_idx, topic_log |-> topic_log]

Set(s) ==
    /\ pc' = s.pc /\ cycle' = s.cycle /\ stats' = s.stats
    /\ status_message_id' = s.status_message_id /\ date_idx' = s.date_idx
    /\ flights' = s.flights /\ flight_idx' = s.flight_idx
    /\ has_seat_info' = s.has_seat_info
    /\ ch_kind' = s.ch_kind /\ ch_st' = s.ch_st /\ ch_req' = s.ch_req
    /\ retry_count' = s.retry_count
    /\ ch_result' = s.ch_result
    /\ g_st' = s.g_st /\ g_cand' = s.g_cand /\ g_ids' = s.g_ids /\ g_idx' = s.g_idx
    /\ g_skipped' = s.g_skipped
    /\ found_thread' = s.found_thread
    /\ resps' = s.resps /\ slept' = s.slept /\ calls' = s.calls
    /\ search_log' = s.search_log /\ handled_log' = s.handled_log
    /\ last_sleep' = s.last_sleep /\ exit_cause' = s.exit_cause
    /\ g_last' = s.g_last /\ ch_last' = s.ch_last
    /\ search_outcome' = s.search_outcome /\ tally' = s.tally
    /\ topic_ids' = s.topic_ids /\ topic_idx' = s.topic_idx /\ topic_log' = s.topic_log
    /\ UNCHANGED cfgVars

(***************************************************************************)
(* Values.                                                                 *)
(***************************************************************************)
NoneOpt == <<>>
Some(x) == <<x>>
IsSome(o) == Len(o) = 1
Unwrap(o) == o[1]

RECURSIVE Pow2(_)
Pow2(n) == IF n = 0 THEN 1 ELSE 2 * Pow2(n - 1)

RECURSIVE SumSeq(_)
SumSeq(s) == IF s = <<>> THEN 0 ELSE Head(s) + SumSeq(Tail(s))

\* Result<T, Box<dyn Error>>: ok, the value (an Option), the kind of error and
\* the backend text the error message was formatted with.
NoBody == [json |-> FALSE, ra |-> NoneOpt]
Ok(v) == [ok |-> TRUE, val |-> v, err |-> "", text |-> NoBody]
Err(kind, body) == [ok |-> FALSE, val |-> NoneOpt, err |-> kind, text |-> body]
NoResult == [ok |-> FALSE, val |-> NoneOpt, err |-> "pending", text |-> NoBody]

(***************************************************************************)
(* The messaging backend's answers to sendMessage and editMessageText.     *)
(* sent: send() returned a response; body.json: the body parses as JSON;   *)
(* body.ra: parameters.retry_after as a number (seconds * 1000: 1 s and    *)
(* 3.5 s); mid: result.message_id is present as an integer.                *)
(***************************************************************************)
RetryAfters == {1000, 3500}

Bodies ==
    {[json |-> FALSE, ra |-> NoneOpt], [json |-> TRUE, ra |-> NoneOpt]}
        \cup {[json |-> TRUE, ra |-> Some(r)] : r \in RetryAfters}

Responses ==
    {[sent |-> FALSE, status |-> 0, body |-> NoBody, mid |-> FALSE]}
    \cup {[sent |-> TRUE, status |-> 200, body |-> [json |-> TRUE, ra |-> NoneOpt], mid |-> m] :
            m \in BOOLEAN}
    \cup {[sent |-> TRUE, status |-> 200, body |-> NoBody, mid |-> FALSE]}
    \cup {[sent |-> TRUE, status |-> StatusTooManyRequests, body |-> b, mid |-> FALSE] :
            b \in Bodies}
    \cup {[sent |-> TRUE, status |-> 400, body |-> [json |-> TRUE, ra |-> NoneOpt], mid |-> FALSE]}

\* StatusCode::is_success
IsSuccess(status) == status >= 200 /\ status <= 299

(***************************************************************************)
(* Dates and texts.  A date is a day number; a text is a sequence of       *)
(* tokens, "<b>" and "</b>" being the mark-up the bodies are sent with.    *)
(***************************************************************************)
RECURSIVE date_range(_, _)
date_range(start_date, end_date) ==
    IF start_date <= end_date
        THEN <<start_date>> \o date_range(start_date + 1, end_date)
        ELSE <<>>

\* format!("{} {} {}", date.day(), month name, date.year())
formatted_date(d) == <<ToString(d), "sep", "2025">>

\* the texts given to was_message_sent_recently and to the send functions
FoundCandidate(n, d) == <<"found", ToString(n), "flights", "on">> \o formatted_date(d)

FoundAlertText(n, d) ==
    <<"[ok]", "found", "<b>", ToString(n), "flights", "</b>", "on", "<b>">>
        \o formatted_date(d) \o <<"</b>", "from", "ORG", "to", "DST", ":">>

MoreText(k) == <<"...", "and", ToString(k), "more", "flights">>

FlightText(f) ==
    <<"[plane]", "<b>", "flight", f.flight_number, "</b>", ":",
      "ORG", "(", f.origin_airport, ")", "->", "DST", "(", f.destination_airport, ")">>

AirlabsText(f, seats) ==
    <<"[chart]", "<b>", "extra", "info", "for", f.flight_number, "</b>", ":">>
        \o (IF seats THEN <<"[seat]", "<b>", "economy", "</b>", ":", "9">> ELSE <<>>)

SecondaryAirlabsText(f, seats) ==
    <<"[alert]", "<b>", "SEATS", "INFO", ":", "</b>", "[alert]">> \o AirlabsText(f, seats)

ErrorText(d, e) ==
    <<"[warn]", "<b>", "search", "error", "</b>", "date", ":">> \o formatted_date(d)
        \o <<"error", ":", e, "search", "continues">>

\* message_id.split('/').nth(k).unwrap_or(""): an id is a decimal number and
\* holds no '/', so the split has one part.
SplitSlash(id) == <<id>>
NthOr(parts, k) == IF k + 1 <= Len(parts) THEN parts[k + 1] ELSE ""

RECURSIVE SummaryLinks(_)
SummaryLinks(fd) ==
    IF fd = <<>> THEN <<>>
    ELSE <<"*", "href", "t.me/c/", NthOr(SplitSlash(Head(fd)[2]), 0), "/",
           NthOr(SplitSlash(Head(fd)[2]), 1), ">">> \o Head(fd)[1] \o <<"</a>">>
             \o SummaryLinks(Tail(fd))

\* SearchStatistics::format_summary
format_summary(st) ==
    <<"checked", ToString(st.total_dates_checked),
      "with", ToString(st.dates_with_flights),
      "without", ToString(st.dates_without_flights),
      "flights", ToString(st.total_flights_found),
      "errors", ToString(st.errors_encountered)>>
        \o (IF st.flight_dates # <<>>
              THEN <<"dates", "with", "flights", ":">> \o SummaryLinks(st.flight_dates)
              ELSE <<>>)

format_date_range_ru_StartOnly(start_date, end_date) == <<"from", ToString(start_date)>>

\* format_date_range_ru, both dates in one month: "from {} to {} {} {}"
format_date_range_ru(start_date, end_date) ==
    <<"from", ToString(start_date), "to", ToString(end_date), "sep", "2025">>

\* date_range_str: the configured range starts at day 1 and ends at the last
\* day of dates (day 0 when the range is empty)
date_range_str == format_date_range_ru(1, Len(dates))

StartupText ==
    <<"[start]", "program", "started", "dates">> \o date_range_str
        \o <<"every", ToString(hours_interval), "hours">>
CycleStartText ==
    <<"[start]", "cycle", "started", "dates">> \o date_range_str
        \o <<"status", "will", "update">>
ProgressText(st, total) ==
    <<"[start]", "search", "begun", "dates">> \o date_range_str \o format_summary(st)
        \o <<"in", "progress", ToString(st.total_dates_checked), "/", ToString(total)>>
FinalText(st, total) ==
    <<"[start]", "cycle", "done", "dates", ToString(total)>> \o format_summary(st)
        \o <<"next", "in", ToString(hours_interval), "hours">>

Contains_Exact(text, pat) == text = pat

\* str::contains on token sequences
Contains(text, pat) ==
    \E i \in 0..(Len(text) - Len(pat)) : SubSeq(text, i + 1, i + Len(pat)) = pat

\* The text the backend answers getMessage with: a body sent with
\* "parse_mode": "HTML" is kept as its text, the mark-up tags removed.
IsTag(tok) == tok \in {"<b>", "</b>"}
StripMarkup(text) == SelectSeq(text, LAMBDA tok : ~IsTag(tok))
StoredText_Raw(text) == text

StoredText(text) == StripMarkup(text)

\* what a search returns when it finds n flights: the flights of the route
Flight(i) ==
    [flight_number |-> "UT" \o ToString(i), origin_airport |-> "ORG",
     destination_airport |-> "DST"]
FlightList(n) == [i \in 1..n |-> Flight(i)]

\* SearchStatistics::new
NewStats ==
    [total_dates_checked |-> 0, dates_with_flights |-> 0, dates_without_flights |-> 0,
     total_flights_found |-> 0, errors_encountered |-> 0, flight_dates |-> <<>>]

DevlogsTopic == "devlogs"
FoundTopic == "found"

\* nothing returned yet by was_message_sent_recently / by search_flights
NoLast == [cand |-> <<>>, res |-> "", skipped |-> FALSE, idx |-> 0]
NoOutcome == [kind |-> "", n |-> 0]
NoReturn == [at |-> "", ok |-> FALSE]

\* the calls counted for one date (all but edits) and for one cycle (edits)
NoDateTally ==
    [date_edits |-> 0, err_notes |-> 0, guards |-> 0, suppressed |-> 0,
     alerts |-> 0, per_flight |-> 0, more |-> 0, enrich |-> 0]
NoTally == [edits |-> 0] @@ NoDateTally
ResetDate(s) ==
    [s EXCEPT !.tally = [edits |-> s.tally.edits] @@ NoDateTally,
              !.search_outcome = NoOutcome]

\* the count a call entered at suspension point `at` adds to
CountCall(tl, kind, at) ==
    IF kind = "edit" THEN [tl EXCEPT !.edits = @ + 1, !.date_edits = @ + 1]
    ELSE IF at = "error_notify" THEN [tl EXCEPT !.err_notes = @ + 1]
    ELSE tl

\* the count a message accepted by the backend for the results topic adds to
CountDelivered(tl, at) ==
    IF at = "found_send" THEN [tl EXCEPT !.alerts = @ + 1]
    ELSE IF at = "flight_send" THEN [tl EXCEPT !.per_flight = @ + 1]
    ELSE IF at = "more_send" THEN [tl EXCEPT !.more = @ + 1]
    ELSE IF at \in {"airlabs_send", "airlabs_secondary_send"} THEN [tl EXCEPT !.enrich = @ + 1]
    ELSE tl

(***************************************************************************)
(* Calls and returns.                                                      *)
(***************************************************************************)
NoReq == [topic |-> "", text |-> <<>>, message_id |-> NoneOpt]

\* entry of send_telegram_notification ("send"), send_telegram_notification_with_id
\* ("send_with_id") or update_telegram_message ("edit"): the first underlying
\* call is issued with retry_count = 0
StartCall(s, kind, topic, text, mid, at) ==
    [s EXCEPT !.pc = at, !.ch_kind = kind, !.ch_st = "calling",
              !.ch_req = [topic |-> topic, text |-> text, message_id |-> mid],
              !.retry_count = 0, !.ch_result = NoResult,
              !.tally = CountCall(@, kind, at)]

ClearCall(s) ==
    [s EXCEPT !.ch_kind = "none", !.ch_st = "idle", !.ch_req = NoReq,
              !.retry_count = 0, !.ch_result = NoResult]

\* entry of was_message_sent_recently: getChatHistory is issued
StartGuard(s, cand, at) ==
    [s EXCEPT !.pc = at, !.g_st = "listing", !.g_cand = cand, !.g_ids = <<>>, !.g_idx = 0,
              !.g_skipped = FALSE, !.tally.guards = @ + 1]

ClearGuard(s) ==
    [s EXCEPT !.g_st = "idle", !.g_cand = <<>>, !.g_ids = <<>>, !.g_idx = 0,
              !.g_skipped = FALSE]

\* main returns Err through a `?`: the process ends
Exit(s, cause) ==
    [ClearGuard(ClearCall(s)) EXCEPT !.pc = "exited", !.exit_cause = cause]

MainSleep(s, ms, at) == [s EXCEPT !.pc = at, !.last_sleep = ms]

(***************************************************************************)
(* main, from the end of a cycle back to its start: each operator is the   *)
(* code from one point up to the next await.                               *)
(***************************************************************************)
\* Duration::from_secs(hours_interval)
check_interval == hours_interval * 1000

PacingMs == PacingSecs * 1000

StatusActive_ChannelOnly(s) == enable_telegram

\* `if enable_telegram && status_message_id.is_some()`
StatusActive(s) == enable_telegram /\ IsSome(s.status_message_id)

enable_secondary_notifications == enable_telegram

EndCycle_NoStatus(s) == MainSleep(s, check_interval, "sleeping")

\* after the date loop: the final status update, then the sleep
EndCycle(s) ==
    IF StatusActive(s)
        THEN StartCall(s, "edit", DevlogsTopic, FinalText(s.stats, Len(dates)),
                       s.status_message_id, "final_status")
        ELSE MainSleep(s, check_interval, "sleeping")

AfterFinalStatus_Fatal(s) ==
    IF ~s.ch_result.ok
        THEN Exit(s, "send")
        ELSE MainSleep(ClearCall(s), check_interval, "sleeping")

AfterFinalStatus(s) == MainSleep(ClearCall(s), check_interval, "sleeping")

NextIndex_Skip(i) == i + 2

\* `for date in &dates`: the step to the next element
NextIndex(i) == i + 1

NextDate_NoCount(s0) ==
    LET s == ResetDate(s0) IN
    IF NextIndex(s.date_idx) > Len(dates)
        THEN EndCycle(s)
        ELSE [s EXCEPT !.date_idx = NextIndex(s.date_idx),
                       !.pc = "searching",
                       !.search_log = Append(@, dates[NextIndex(s.date_idx)])]

\* top of the loop body: count the date, then call search_flights
NextDate(s0) ==
    LET s == ResetDate(s0) IN
    IF NextIndex(s.date_idx) > Len(dates)
        THEN EndCycle(s)
        ELSE [s EXCEPT !.date_idx = NextIndex(s.date_idx),
                       !.stats.total_dates_checked = @ + 1,
                       !.pc = "searching",
                       !.search_log = Append(@, dates[NextIndex(s.date_idx)])]

\* bottom of the loop body: time::sleep(Duration::from_secs(1))
Pace(s) ==
    MainSleep([s EXCEPT !.flights = <<>>, !.flight_idx = 0, !.has_seat_info = FALSE],
              PacingMs, "pacing")

AfterPacing(s) ==
    NextDate([s EXCEPT !.handled_log = Append(@, dates[s.date_idx])])

AfterProgressStatus_Fatal(s) ==
    IF ~s.ch_result.ok THEN Exit(s, "send") ELSE Pace(ClearCall(s))

\* the Err arm of the search
AfterProgressStatus(s) == Pace(ClearCall(s))

AfterErrorNotify_NoStatus(s) == Pace(ClearCall(s))

AfterErrorNotify(s) ==
    LET c == ClearCall(s) IN
    IF StatusActive(c)
        THEN StartCall(c, "edit", DevlogsTopic, ProgressText(c.stats, Len(dates)),
                       c.status_message_id, "progress_status")
        ELSE Pace(c)

\* the AirLabs loop
EnrichLoop(s) ==
    IF s.flight_idx >= Len(s.flights) THEN Pace(s) ELSE [s EXCEPT !.pc = "enriching"]

AfterSecondarySend(s) ==
    IF ~s.ch_result.ok
        THEN Exit(s, "send")
        ELSE EnrichLoop([ClearCall(s) EXCEPT !.flight_idx = @ + 1])

SecondaryStep(s) ==
    IF enable_secondary_notifications /\ s.has_seat_info
        THEN StartCall(s, "send", FoundTopic,
                       SecondaryAirlabsText(s.flights[s.flight_idx + 1], s.has_seat_info),
                       NoneOpt, "airlabs_secondary_send")
        ELSE EnrichLoop([s EXCEPT !.flight_idx = @ + 1])

AfterAirlabsSend(s) ==
    IF ~s.ch_result.ok THEN Exit(s, "send") ELSE SecondaryStep(ClearCall(s))

\* the match on the result of enrich_with_airlabs_data
EnrichReturn(s, info) ==
    IF info = "none"
        THEN EnrichLoop([s EXCEPT !.flight_idx = @ + 1])
        ELSE LET s1 == [s EXCEPT !.has_seat_info = (info = "seats")] IN
             IF enable_telegram
                 THEN StartCall(s1, "send", FoundTopic,
                                AirlabsText(s.flights[s.flight_idx + 1], info = "seats"),
                                NoneOpt, "airlabs_send")
                 ELSE SecondaryStep(s1)

AfterFlights(s) ==
    IF enable_airlabs THEN EnrichLoop([s EXCEPT !.flight_idx = 0]) ELSE Pace(s)

FlightLoop_NoCap(s) ==
    IF s.flight_idx >= Len(s.flights)
        THEN AfterFlights(s)
        ELSE StartGuard(s, FlightText(s.flights[s.flight_idx + 1]), "flight_check")

\* `for (i, flight) in flights.iter().enumerate()`
FlightLoop(s) ==
    IF s.flight_idx >= Len(s.flights)
        THEN AfterFlights(s)
        ELSE IF s.flight_idx >= VerboseCap
            THEN StartGuard(s, MoreText(Len(s.flights) - VerboseCap), "more_check")
            ELSE StartGuard(s, FlightText(s.flights[s.flight_idx + 1]), "flight_check")

AfterFlightSend_Stop(s) ==
    IF ~s.ch_result.ok THEN Exit(s, "send") ELSE AfterFlights(ClearCall(s))

AfterFlightSend(s) ==
    IF ~s.ch_result.ok
        THEN Exit(s, "send")
        ELSE FlightLoop([ClearCall(s) EXCEPT !.flight_idx = @ + 1])

AfterFlightCheck(s, res) ==
    IF ~res.ok THEN Exit(s, "dedup")
    ELSE IF ~Unwrap(res.val)
        THEN StartCall(s, "send", FoundTopic, FlightText(s.flights[s.flight_idx + 1]),
                       NoneOpt, "flight_send")
        ELSE FlightLoop([s EXCEPT !.flight_idx = @ + 1])

AfterMoreSend(s) ==
    IF ~s.ch_result.ok THEN Exit(s, "send") ELSE AfterFlights(ClearCall(s))

AfterMoreCheck(s, res) ==
    IF ~res.ok THEN Exit(s, "dedup")
    ELSE IF ~Unwrap(res.val)
        THEN StartCall(s, "send_with_id", FoundTopic,
                       MoreText(Len(s.flights) - VerboseCap), NoneOpt, "more_send")
        ELSE AfterFlights(s)

AfterFoundSend_FirstDate(s) ==
    IF ~s.ch_result.ok
        THEN Exit(s, "send")
        ELSE FlightLoop([ClearCall(s) EXCEPT
                 !.stats.flight_dates =
                     Append(@, <<formatted_date(dates[1]), Unwrap(s.ch_result.val)>>),
                 !.flight_idx = 0])

\* the alert was sent: `stats.flight_dates.push((formatted_date, message_id))`
AfterFoundSend(s) ==
    IF ~s.ch_result.ok
        THEN Exit(s, "send")
        ELSE FlightLoop([ClearCall(s) EXCEPT
                 !.stats.flight_dates =
                     Append(@, <<formatted_date(dates[s.date_idx]), Unwrap(s.ch_result.val)>>),
                 !.flight_idx = 0])

AfterFoundCheck(s, res) ==
    IF ~res.ok THEN Exit(s, "dedup")
    ELSE IF ~Unwrap(res.val)
        THEN StartCall(s, "send_with_id", FoundTopic,
                       FoundAlertText(Len(s.flights), dates[s.date_idx]), NoneOpt,
                       "found_send")
        ELSE Pace([s EXCEPT !.stats.dates_without_flights = @ + 1])

(***************************************************************************)
(* search_flights: from the HTTP response to Result<FlightData>.           *)
(* resp: [sent, status, json, success, data]                               *)
(***************************************************************************)
search_flights(resp) ==
    IF ~resp.sent THEN [ok |-> FALSE, err |-> "transport", success |-> FALSE, data |-> NoneOpt]
    ELSE IF ~IsSuccess(resp.status)
        THEN [ok |-> FALSE, err |-> "status", success |-> FALSE, data |-> NoneOpt]
    ELSE IF ~resp.json
        THEN [ok |-> FALSE, err |-> "decode", success |-> FALSE, data |-> NoneOpt]
    ELSE [ok |-> TRUE, err |-> "", success |-> resp.success,
          data |-> IF resp.success THEN resp.data ELSE NoneOpt]

HasFlights_Always(fl) == Len(fl) >= 0

\* `if flight_count > 0`
HasFlights(fl) == Len(fl) > 0

\* the case of the match the result r falls in
OutcomeOf(r) ==
    IF ~r.ok THEN [kind |-> "err", n |-> 0]
    ELSE IF ~r.success THEN [kind |-> "nosuccess", n |-> 0]
    ELSE IF ~IsSome(r.data) THEN [kind |-> "none", n |-> 0]
    ELSE IF Len(Unwrap(r.data)) = 0 THEN [kind |-> "empty", n |-> 0]
    ELSE [kind |-> "some", n |-> Len(Unwrap(r.data))]

\* the match on the result of search_flights
SearchReturn(s0, r) ==
    LET s == [s0 EXCEPT !.search_outcome = OutcomeOf(r)] IN
    IF ~r.ok
        THEN LET s1 == [s EXCEPT !.stats.errors_encountered = @ + 1] IN
             IF enable_telegram
                 THEN StartCall(s1, "send", DevlogsTopic,
                                ErrorText(dates[s.date_idx], r.err), NoneOpt, "error_notify")
                 ELSE AfterErrorNotify(s1)
    ELSE IF r.success
        THEN IF IsSome(r.data)
            THEN IF HasFlights(Unwrap(r.data))
                THEN StartGuard(
                         [s EXCEPT !.stats.dates_with_flights = @ + 1,
                                   !.stats.total_flights_found = @ + Len(Unwrap(r.data)),
                                   !.flights = Unwrap(r.data)],
                         FoundCandidate(Len(Unwrap(r.data)), dates[s.date_idx]),
                         "found_check")
                ELSE Pace([s EXCEPT !.stats.dates_without_flights = @ + 1])
            ELSE Pace([s EXCEPT !.stats.dates_without_flights = @ + 1])
    ELSE Pace(s)

BeginCycle_NoStatus(s) ==
    NextDate([s EXCEPT !.stats = NewStats, !.cycle = @ + 1, !.date_idx = 0,
                       !.search_log = <<>>, !.handled_log = <<>>,
                       !.tally = NoTally, !.search_outcome = NoOutcome])

BeginCycle_KeepStats(s) ==
    LET s1 == [s EXCEPT !.cycle = @ + 1, !.date_idx = 0,
                        !.search_log = <<>>, !.handled_log = <<>>,
                        !.tally = NoTally, !.search_outcome = NoOutcome] IN
    IF StatusActive(s1)
        THEN StartCall(s1, "edit", DevlogsTopic, CycleStartText, s1.status_message_id,
                       "cycle_start_status")
        ELSE NextDate(s1)

\* top of `loop`: the reset and the cycle-start status update
BeginCycle(s) ==
    LET s1 == [s EXCEPT !.stats = NewStats, !.cycle = @ + 1, !.date_idx = 0,
                        !.search_log = <<>>, !.handled_log = <<>>,
                        !.tally = NoTally, !.search_outcome = NoOutcome] IN
    IF StatusActive(s1)
        THEN StartCall(s1, "edit", DevlogsTopic, CycleStartText, s1.status_message_id,
                       "cycle_start_status")
        ELSE NextDate(s1)

AfterCycleStartStatus_Forget(s) ==
    NextDate([ClearCall(s) EXCEPT !.status_message_id = NoneOpt])

AfterCycleStartStatus(s) == NextDate(ClearCall(s))

\* the startup notification
AfterStartupStatus(s) ==
    BeginCycle([ClearCall(s) EXCEPT
        !.status_message_id = IF s.ch_result.ok THEN s.ch_result.val ELSE NoneOpt])

Startup(s) ==
    IF enable_telegram
        THEN StartCall(s, "send_with_id", DevlogsTopic, StartupText, NoneOpt, "startup_status")
        ELSE BeginCycle(s)

\* send_telegram_multi_topic_notification: `for topic_id in topic_ids`
MultiTopicLoop(s) ==
    IF s.topic_idx > Len(s.topic_ids)
        THEN [s EXCEPT !.pc = "multi_topic_done"]
        ELSE StartCall(s, "send", s.topic_ids[s.topic_idx], StartupText, NoneOpt,
                       "multi_topic_send")

AfterTopicSend_Abort(s) ==
    LET s1 == [ClearCall(s) EXCEPT
                  !.topic_log = Append(@, [topic |-> s.ch_req.topic, ok |-> s.ch_result.ok]),
                  !.topic_idx = @ + 1] IN
    IF ~s.ch_result.ok THEN [s1 EXCEPT !.pc = "multi_topic_done"] ELSE MultiTopicLoop(s1)

\* the match on the result of one send: both arms go on with the next topic
AfterTopicSend(s) ==
    MultiTopicLoop([ClearCall(s) EXCEPT
        !.topic_log = Append(@, [topic |-> s.ch_req.topic, ok |-> s.ch_result.ok]),
        !.topic_idx = @ + 1])

\* where a delivery call returns to
CallReturn(s) ==
    CASE s.pc = "startup_status" -> AfterStartupStatus(s)
      [] s.pc = "multi_topic_send" -> AfterTopicSend(s)
      [] s.pc = "cycle_start_status" -> AfterCycleStartStatus(s)
      [] s.pc = "final_status" -> AfterFinalStatus(s)
      [] s.pc = "error_notify" -> AfterErrorNotify(s)
      [] s.pc = "progress_status" -> AfterProgressStatus(s)
      [] s.pc = "found_send" -> AfterFoundSend(s)
      [] s.pc = "more_send" -> AfterMoreSend(s)
      [] s.pc = "flight_send" -> AfterFlightSend(s)
      [] s.pc = "airlabs_send" -> AfterAirlabsSend(s)
      [] s.pc = "airlabs_secondary_send" -> AfterSecondarySend(s)
      [] OTHER -> s

\* where was_message_sent_recently returns to
ResultTag(res) == IF ~res.ok THEN "err" ELSE IF Unwrap(res.val) THEN "true" ELSE "false"

GuardDone(s, res) ==
    [ClearGuard(s) EXCEPT
        !.g_last = [cand |-> s.g_cand, res |-> ResultTag(res), skipped |-> s.g_skipped,
                    idx |-> s.g_idx],
        !.tally.suppressed = IF ResultTag(res) = "true" THEN @ + 1 ELSE @]

GuardReturn(s, res) ==
    CASE s.pc = "found_check" -> AfterFoundCheck(GuardDone(s, res), res)
      [] s.pc = "more_check" -> AfterMoreCheck(GuardDone(s, res), res)
      [] s.pc = "flight_check" -> AfterFlightCheck(GuardDone(s, res), res)

(***************************************************************************)
(* The retry loop shared by send_telegram_notification,                    *)
(* send_telegram_notification_with_id and update_telegram_message.         *)
(***************************************************************************)
IsRateLimit_AnyClientError(status) == status >= 400 /\ status <= 499

\* `if status.as_u16() == 429`
IsRateLimit(status) == status = StatusTooManyRequests

RetriesExhausted_AtMax(rc) == rc >= max_retries
RetriesExhausted_Late(rc) == rc > max_retries + 1

\* `if retry_count > max_retries`, evaluated after `retry_count += 1`
RetriesExhausted(rc) == rc > max_retries

\* initial_delay * 2_u64.pow(retry_count as u32), `as f64` seconds
Backoff(rc) == initial_delay * Pow2(rc)

DurationFromSecs_AsMillis(secs) == secs

\* Duration::from_secs_f64
DurationFromSecs(secs) == secs * 1000

WaitTime_BackoffOnly(body, rc) == DurationFromSecs(Backoff(rc))

\* the retry_after the loop sleeps for: the body's parameters.retry_after when
\* the body is JSON and carries a number there, else the exponential backoff
WaitTime(body, rc) ==
    IF body.json /\ IsSome(body.ra) THEN Unwrap(body.ra) ELSE DurationFromSecs(Backoff(rc))

\* the text the two error messages are formatted with
ErrorTextOf(resp) == resp.body

\* the backend's side of a 2xx answer to sendMessage: the message exists
\* The id the backend gives the message being sent (message_id.to_string()).
\* The program reads the ids of the status message and of the messages of the
\* results topic only: the first is 1, the others follow in order of sending.
AssignedId(s) ==
    IF s.ch_req.topic = FoundTopic THEN ToString(Len(s.found_thread) + 2) ELSE ToString(1)

Publish(s) ==
    IF s.ch_kind \in {"send", "send_with_id"} /\ s.ch_req.topic = FoundTopic
        THEN [s EXCEPT !.found_thread =
                           Append(@, [id |-> AssignedId(s), text |-> s.ch_req.text]),
                       !.tally = CountDelivered(@, s.pc)]
        ELSE s

Return(s, r) ==
    CallReturn([s EXCEPT !.ch_st = "returned", !.ch_result = r,
                         !.ch_last = [at |-> s.pc, ok |-> r.ok]])

ChanRespond_IdOptional(s, resp) ==
    IF ~resp.sent THEN Return(s, Err("transport", NoBody))
    ELSE IF IsSuccess(resp.status)
        THEN [Publish(s) EXCEPT
                 !.ch_st = "cooldown",
                 !.ch_result = Ok(IF s.ch_kind = "send_with_id" /\ resp.body.json /\ resp.mid
                                      THEN Some(AssignedId(s)) ELSE NoneOpt)]
    ELSE IF IsRateLimit(resp.status)
        THEN IF RetriesExhausted(s.retry_count + 1)
                 THEN Return([s EXCEPT !.retry_count = @ + 1],
                             Err("exhausted", ErrorTextOf(resp)))
                 ELSE [s EXCEPT !.retry_count = @ + 1, !.ch_st = "backoff"]
    ELSE Return(s, Err("failed", ErrorTextOf(resp)))

\* from the answer to an underlying call up to the next await
ChanRespond(s, resp) ==
    IF ~resp.sent THEN Return(s, Err("transport", NoBody))
    ELSE IF IsSuccess(resp.status)
        THEN IF s.ch_kind = "send_with_id" /\ ~resp.body.json
                 THEN Return(Publish(s), Err("decode", NoBody))
             ELSE IF s.ch_kind = "send_with_id" /\ ~resp.mid
                 THEN Return(Publish(s), Err("no_message_id", NoBody))
             ELSE [Publish(s) EXCEPT
                      !.ch_st = "cooldown",
                      !.ch_result = Ok(IF s.ch_kind = "send_with_id"
                                           THEN Some(AssignedId(s)) ELSE NoneOpt)]
    ELSE IF IsRateLimit(resp.status)
        THEN IF RetriesExhausted(s.retry_count + 1)
                 THEN Return([s EXCEPT !.retry_count = @ + 1],
                             Err("exhausted", ErrorTextOf(resp)))
                 ELSE [s EXCEPT !.retry_count = @ + 1, !.ch_st = "backoff"]
    ELSE Return(s, Err("failed", ErrorTextOf(resp)))

\* time::sleep(wait_time) is over: the loop issues the next underlying call
ChanRetry(s) == [s EXCEPT !.ch_st = "calling"]

ChanCooldownDone_Again(s) == [s EXCEPT !.ch_st = "calling"]

\* the sleep after a success is over: return Ok
ChanCooldownDone(s) == Return(s, s.ch_result)

(***************************************************************************)
(* get_previous_messages and was_message_sent_recently.                    *)
(* resp of getChatHistory: [sent, status, json, has_result]                *)
(* resp of getMessage:     [sent, status, json, has_text]                  *)
(***************************************************************************)
Min(a, b) == IF a <= b THEN a ELSE b

\* the backend's list: the ids of the `limit` most recent messages of the
\* topic, most recent first
RecentIds(thread, limit) ==
    [i \in 1..Min(limit, Len(thread)) |-> thread[Len(thread) - i + 1].id]

get_previous_messages(resp, thread, limit) ==
    IF ~resp.sent THEN Err("transport", NoBody)
    ELSE IF ~IsSuccess(resp.status) THEN Err("history", NoBody)
    ELSE IF ~resp.json THEN Err("decode", NoBody)
    ELSE Ok(IF resp.has_result THEN RecentIds(thread, limit) ELSE <<>>)

\* the text getMessage answers with for message id
TextOf(thread, id) ==
    StoredText((CHOOSE m \in {thread[i] : i \in 1..Len(thread)} : m.id = id).text)

\* the `for message_id in previous_messages` loop, up to the next getMessage
FetchLoop(s) ==
    IF s.g_idx > Len(s.g_ids)
        THEN GuardReturn(s, Ok(Some(FALSE)))
        ELSE [s EXCEPT !.g_st = "fetching"]

HistoryReturn(s, resp) ==
    LET r == get_previous_messages(resp, s.found_thread, HistoryLimit) IN
    IF ~r.ok THEN GuardReturn(s, r)
    ELSE FetchLoop([s EXCEPT !.g_ids = r.val, !.g_idx = 1,
                             !.g_skipped = ~resp.has_result])

MessageReturn_NoStop(s, resp) ==
    IF ~resp.sent THEN GuardReturn(s, Err("transport", NoBody))
    ELSE IF IsSuccess(resp.status)
        THEN IF ~resp.json THEN GuardReturn(s, Err("decode", NoBody))
             ELSE FetchLoop([s EXCEPT !.g_idx = @ + 1,
                                      !.g_skipped = @ \/ ~resp.has_text])
    ELSE FetchLoop([s EXCEPT !.g_idx = @ + 1, !.g_skipped = TRUE])

\* the body of the loop from the answer of getMessage on
MessageReturn(s, resp) ==
    IF ~resp.sent THEN GuardReturn(s, Err("transport", NoBody))
    ELSE IF IsSuccess(resp.status)
        THEN IF ~resp.json THEN GuardReturn(s, Err("decode", NoBody))
             ELSE IF resp.has_text
                       /\ Contains(TextOf(s.found_thread, s.g_ids[s.g_idx]), s.g_cand)
                 THEN GuardReturn(s, Ok(Some(TRUE)))
                 ELSE FetchLoop([s EXCEPT !.g_idx = @ + 1,
                                          !.g_skipped = @ \/ ~resp.has_text])
    ELSE FetchLoop([s EXCEPT !.g_idx = @ + 1, !.g_skipped = TRUE])

(***************************************************************************)
(* The environment: what the two backends may answer.                      *)
(***************************************************************************)
\* With an empty token or chat id the messaging backend accepts no call.
Rejections(rs) ==
    {r \in rs : ~r.sent \/ (~IsSuccess(r.status) /\ r.status # StatusTooManyRequests)}

DeliveryResponses == IF enable_telegram THEN Responses ELSE Rejections(Responses)

AllHistoryResponses ==
    {[sent |-> FALSE, status |-> 0, json |-> FALSE, has_result |-> FALSE],
     [sent |-> TRUE, status |-> 400, json |-> TRUE, has_result |-> FALSE],
     [sent |-> TRUE, status |-> 200, json |-> FALSE, has_result |-> FALSE],
     [sent |-> TRUE, status |-> 200, json |-> TRUE, has_result |-> FALSE],
     [sent |-> TRUE, status |-> 200, json |-> TRUE, has_result |-> TRUE]}

HistoryResponses ==
    IF enable_telegram THEN AllHistoryResponses ELSE Rejections(AllHistoryResponses)

AllMessageResponses ==
    {[sent |-> FALSE, status |-> 0, json |-> FALSE, has_text |-> FALSE],
     [sent |-> TRUE, status |-> 400, json |-> TRUE, has_text |-> FALSE],
     [sent |-> TRUE, status |-> 200, json |-> FALSE, has_text |-> FALSE],
     [sent |-> TRUE, status |-> 200, json |-> TRUE, has_text |-> FALSE],
     [sent |-> TRUE, status |-> 200, json |-> TRUE, has_text |-> TRUE]}

MessageResponses ==
    IF enable_telegram THEN AllMessageResponses ELSE Rejections(AllMessageResponses)

FlightCounts == (0..2) \cup {VerboseCap + k : k \in 1..MaxExtraFlights}

SearchResponses ==
    {[sent |-> FALSE, status |-> 0, json |-> FALSE, success |-> FALSE, data |-> NoneOpt],
     [sent |-> TRUE, status |-> 500, json |-> TRUE, success |-> FALSE, data |-> NoneOpt],
     [sent |-> TRUE, status |-> 200, json |-> FALSE, success |-> FALSE, data |-> NoneOpt],
     [sent |-> TRUE, status |-> 200, json |-> TRUE, success |-> FALSE, data |-> NoneOpt],
     [sent |-> TRUE, status |-> 200, json |-> TRUE, success |-> TRUE, data |-> NoneOpt]}
    \cup {[sent |-> TRUE, status |-> 200, json |-> TRUE, success |-> TRUE,
           data |-> Some(FlightList(n))] : n \in FlightCounts}

\* what enrich_with_airlabs_data returns for a flight: "none" for Ok(None),
\* "info" for a flight without seat fields, "seats" for one with a seat field
\* AirLabs knows the seats of the first flight of the route and the status of
\* the second, and nothing of the others.
EnrichOutcome(f) ==
    IF f = Flight(1) THEN "seats" ELSE IF f = Flight(2) THEN "info" ELSE "none"

(***************************************************************************)
(* Actions.                                                                *)
(***************************************************************************)
\* the call examined alone keeps a log of its answers, sleeps and calls
Alone(s) == s.pc = "delivery_only"

\* the duration of the sleep the call enters on the answer resp
SleepOf(old, new, resp) ==
    IF new.ch_st = "backoff"
        THEN <<[why |-> "backoff", ms |-> WaitTime(resp.body, new.retry_count)]>>
    ELSE IF new.ch_st = "cooldown"
        THEN <<[why |-> "cooldown", ms |-> SuccessCooldownMs]>>
    ELSE <<>>

LogResponse(old, new, resp) ==
    IF Alone(old)
        THEN [new EXCEPT !.resps = Append(old.resps, resp),
                         !.slept = old.slept \o SleepOf(old, new, resp)]
        ELSE new

LogCall(old, new) ==
    IF Alone(old) THEN [new EXCEPT !.calls = @ + 1] ELSE new

\* the state an action starts from: g_last and ch_last describe the last step only
Fresh == [Cur EXCEPT !.g_last = NoLast, !.ch_last = NoReturn]

Start ==
    /\ pc = "init"
    /\ Set(Startup(Fresh))

DeliveryResponse ==
    /\ ch_st = "calling"
    /\ \E resp \in DeliveryResponses : Set(LogResponse(Fresh, ChanRespond(Fresh, resp), resp))

DeliveryRetry ==
    /\ ch_st = "backoff"
    /\ Set(LogCall(Fresh, ChanRetry(Fresh)))

DeliveryCooldown ==
    /\ ch_st = "cooldown"
    /\ Set(ChanCooldownDone(Fresh))

SearchResponse ==
    /\ pc = "searching"
    /\ \E resp \in SearchResponses : Set(SearchReturn(Fresh, search_flights(resp)))

HistoryResponse ==
    /\ g_st = "listing"
    /\ \E resp \in HistoryResponses : Set(HistoryReturn(Fresh, resp))

MessageResponse ==
    /\ g_st = "fetching"
    /\ \E resp \in MessageResponses : Set(MessageReturn(Fresh, resp))

EnrichResponse ==
    /\ pc = "enriching"
    /\ Set(EnrichReturn(Fresh, EnrichOutcome(flights[flight_idx + 1])))

PacingDone ==
    /\ pc = "pacing"
    /\ Set(AfterPacing(Fresh))

IntervalDone ==
    /\ pc = "sleeping"
    /\ cycle < MaxCycles
    /\ Set(BeginCycle(Fresh))

(***************************************************************************)
(* Specifications.                                                         *)
(***************************************************************************)
Quiet ==
    /\ cycle = 0 /\ stats = NewStats /\ status_message_id = NoneOpt /\ date_idx = 0
    /\ flights = <<>> /\ flight_idx = 0 /\ has_seat_info = FALSE
    /\ g_st = "idle" /\ g_cand = <<>> /\ g_ids = <<>> /\ g_idx = 0 /\ g_skipped = FALSE
    /\ found_thread = <<>>
    /\ resps = <<>> /\ slept = <<>>
    /\ search_log = <<>> /\ handled_log = <<>> /\ last_sleep = 0 /\ exit_cause = ""
    /\ g_last = NoLast /\ ch_last = NoReturn
    /\ search_outcome = NoOutcome /\ tally = NoTally
    /\ topic_idx = 0 /\ topic_log = <<>>

\* main after the configuration is read, before the startup notification
Init ==
    /\ enable_telegram \in BOOLEAN
    /\ enable_airlabs \in BOOLEAN
    /\ \E end_date \in 0..MaxDates : dates = date_range(1, end_date)
    /\ pc = "init"
    /\ ch_kind = "none" /\ ch_st = "idle" /\ ch_req = NoReq
    /\ retry_count = 0 /\ ch_result = NoResult
    /\ calls = 0
    /\ topic_ids = <<>>
    /\ Quiet

Next ==
    \/ Start
    \/ DeliveryResponse
    \/ DeliveryRetry
    \/ DeliveryCooldown
    \/ SearchResponse
    \/ HistoryResponse
    \/ MessageResponse
    \/ EnrichResponse
    \/ PacingDone
    \/ IntervalDone

Spec == Init /\ [][Next]_vars

\* main with a flight source that fails for every date: search_flights returns
\* Err each time.  main runs on its single task, and an await that can
\* complete does complete.
FailingResponses == {resp \in SearchResponses : ~search_flights(resp).ok}

SearchFailure ==
    /\ pc = "searching"
    /\ \E resp \in FailingResponses : Set(SearchReturn(Fresh, search_flights(resp)))

NextFailing ==
    \/ Start
    \/ DeliveryResponse
    \/ DeliveryRetry
    \/ DeliveryCooldown
    \/ SearchFailure
    \/ PacingDone
    \/ IntervalDone

FailingSpec == Init /\ [][NextFailing]_vars /\ WF_vars(NextFailing)

\* one delivery call alone, just entered, its first underlying call issued
InitDelivery ==
    /\ enable_telegram = TRUE
    /\ enable_airlabs = FALSE
    /\ dates = <<>>
    /\ pc = "delivery_only"
    /\ \E kind \in {"send", "send_with_id", "edit"}, topic \in {DevlogsTopic, FoundTopic} :
          /\ ch_kind = kind
          /\ ch_req = [topic |-> topic, text |-> StartupText,
                       message_id |-> IF kind = "edit" THEN Some("1") ELSE NoneOpt]
    /\ ch_st = "calling" /\ retry_count = 0 /\ ch_result = NoResult
    /\ calls = 1
    /\ topic_ids = <<>>
    /\ Quiet

NextDelivery ==
    \/ DeliveryResponse
    \/ DeliveryRetry
    \/ DeliveryCooldown

SpecDelivery == InitDelivery /\ [][NextDelivery]_vars

\* send_telegram_multi_topic_notification alone, called with a list of topics
TopicLists ==
    UNION {[1..n -> {DevlogsTopic, FoundTopic}] : n \in 0..MaxTopics}

InitMultiTopic ==
    /\ enable_telegram = TRUE
    /\ enable_airlabs = FALSE
    /\ dates = <<>>
    /\ pc = "multi_topic_entry"
    /\ topic_ids \in TopicLists
    /\ ch_kind = "none" /\ ch_st = "idle" /\ ch_req = NoReq
    /\ retry_count = 0 /\ ch_result = NoResult
    /\ calls = 0
    /\ Quiet

MultiTopicStart ==
    /\ pc = "multi_topic_entry"
    /\ Set(MultiTopicLoop([Fresh EXCEPT !.topic_idx = 1]))

NextMultiTopic ==
    \/ MultiTopicStart
    \/ DeliveryResponse
    \/ DeliveryRetry
    \/ DeliveryCooldown

SpecMultiTopic == InitMultiTopic /\ [][NextMultiTopic]_vars

(***************************************************************************)
(* Properties of one delivery call (SpecDelivery).                         *)
(***************************************************************************)
RateLimited(resp) == resp.sent /\ resp.status = StatusTooManyRequests
Succeeded(resp) == resp.sent /\ IsSuccess(resp.status)
OtherFailure(resp) == ~resp.sent \/ (~Succeeded(resp) /\ ~RateLimited(resp))
CarriesRetryAfter(resp) == RateLimited(resp) /\ resp.body.json /\ IsSome(resp.body.ra)

\* the first n answers of the call are all rate-limit answers
FirstRateLimited(n) == Len(resps) >= n /\ \A i \in 1..n : RateLimited(resps[i])

InFlight == ch_st \in {"calling", "backoff", "cooldown"}
Returned == ch_st = "returned"
Exhausted == Returned /\ ~ch_result.ok /\ ch_result.err = "exhausted"

Backoffs == SelectSeq(slept, LAMBDA e : e.why = "backoff")
Elapsed == SumSeq([i \in 1..Len(slept) |-> slept[i].ms])

\* C4 as claimed: after 5 consecutive rate-limit answers no 6th underlying call
\* is issued and the call has failed with exhausted retries and the last text.
C4_NoSixthCall ==
    FirstRateLimited(max_retries) =>
        /\ calls <= max_retries
        /\ Exhausted
        /\ ch_result.text = resps[max_retries].body

\* C4 as amended: each of the first 5 consecutive rate-limit answers is followed
\* by a wait and a further call; after 6 consecutive rate-limit answers no 7th
\* call is issued and the call has failed with exhausted retries, carrying the
\* text of the last answer.  No call issues more than 6 underlying calls.
C4_RetryBound ==
    /\ calls <= max_retries + 1
    /\ \A n \in 1..max_retries :
          (FirstRateLimited(n) /\ Len(resps) = n) =>
              /\ ch_st \in {"backoff", "calling"}
              /\ calls \in {n, n + 1}
    /\ FirstRateLimited(max_retries + 1) =>
          /\ Len(resps) = max_retries + 1
          /\ calls = max_retries + 1
          /\ Exhausted
          /\ ch_result.text = resps[max_retries + 1].body
    /\ Exhausted => FirstRateLimited(max_retries + 1)

C4_Witness ==
    /\ Exhausted /\ calls = max_retries + 1
    /\ CarriesRetryAfter(resps[max_retries + 1])
    /\ ~CarriesRetryAfter(resps[max_retries])

\* C5: while a call is in flight retry_count is at most max_retries; a call
\* whose retry_count exceeds it has returned an error to its caller.
C5_AttemptBound ==
    /\ InFlight => retry_count <= max_retries
    /\ retry_count > max_retries => Exhausted
    /\ Returned => (ch_result.ok \/ ch_result.err # "pending")

C5_Witness == retry_count > max_retries /\ Exhausted /\ ch_kind = "edit"

\* C6: an answer that is a failure other than a rate limit is the last answer
\* of the call: the call has returned an error, no sleep was begun on it and no
\* further underlying call was issued.
C6_FailFast ==
    \A i \in 1..Len(resps) :
        OtherFailure(resps[i]) =>
            /\ i = Len(resps)
            /\ Returned /\ ~ch_result.ok
            /\ ch_result.err = (IF resps[i].sent THEN "failed" ELSE "transport")
            /\ calls = i
            /\ Len(slept) = i - 1

C6_Witness ==
    /\ Returned /\ Len(resps) = 3
    /\ OtherFailure(resps[3]) /\ resps[3].sent
    /\ ch_result.err = "failed"

\* C7: the i-th wait of a call is the retry_after of the i-th answer whenever
\* that answer carries one, whatever retry_count is, and the next underlying
\* call is issued only after that wait.
C7_RetryAfterFirst ==
    /\ \A i \in 1..Len(Backoffs) :
          CarriesRetryAfter(resps[i]) => Backoffs[i].ms = Unwrap(resps[i].body.ra)
    /\ calls <= Len(Backoffs) + 1
    /\ \A i \in 1..Len(resps) :
          (RateLimited(resps[i]) /\ i <= max_retries) => Len(Backoffs) >= i

C7_Witness ==
    /\ ch_st = "calling" /\ calls = max_retries + 1
    /\ \A i \in 1..max_retries : CarriesRetryAfter(resps[i]) /\ Backoffs[i].ms = 3500

\* C8 as claimed: without retry_after the i-th wait is initial_delay * 2^(i-1)
\* seconds, the counter being read before its increment: 1, 2, 4, 8, 16 s.
C8_BackoffFromZero ==
    \A i \in 1..Len(Backoffs) :
        ~CarriesRetryAfter(resps[i]) =>
            Backoffs[i].ms = 1000 * initial_delay * Pow2(i - 1)

\* C9: a call answered by k rate limits, 1 <= k <= 5, and then by a success
\* returns Ok (with the id the backend gave the message, for
\* send_telegram_notification_with_id) and has slept at least the waits the
\* k answers ask for: retry_after where carried, else initial_delay * 2^(i-1) s.
AskedWait(i) ==
    IF CarriesRetryAfter(resps[i])
        THEN Unwrap(resps[i].body.ra)
        ELSE 1000 * initial_delay * Pow2(i - 1)

\* a success answer the caller can use: for send_with_id it holds the message id
UsableSuccess(resp) ==
    Succeeded(resp) /\ (ch_kind = "send_with_id" => (resp.body.json /\ resp.mid))

RetriedThenSucceeded(k) ==
    /\ Len(resps) = k + 1
    /\ FirstRateLimited(k)
    /\ UsableSuccess(resps[k + 1])

C9_RetrySucceeds ==
    \A k \in 1..max_retries :
        RetriedThenSucceeded(k) =>
            /\ InFlight \/ Returned
            /\ Returned =>
                  /\ ch_result.ok
                  /\ ch_kind = "send_with_id" =>
                        /\ IsSome(ch_result.val)
                        /\ ch_req.topic = FoundTopic =>
                              /\ Len(found_thread) = 1
                              /\ Unwrap(ch_result.val) = found_thread[1].id
                  /\ Elapsed >= SumSeq([i \in 1..k |-> AskedWait(i)])
                  /\ calls = k + 1

C9_Witness ==
    /\ RetriedThenSucceeded(max_retries)
    /\ Returned /\ ch_result.ok
    /\ ch_kind = "send_with_id" /\ ch_req.topic = FoundTopic
    /\ CarriesRetryAfter(resps[1]) /\ Unwrap(resps[1].body.ra) = 1000

(***************************************************************************)
(* Properties of main (Spec).                                              *)
(***************************************************************************)
Outcomes ==
    stats.dates_with_flights + stats.dates_without_flights + stats.errors_encountered

\* the date loop is over: the final status update is being made, or main sleeps
CycleSummarised == pc \in {"final_status", "sleeping"}

\* C1 as claimed: at the final summary of a cycle
\* checked = with results + without results + errors.
C1_SumAtCycleEnd == CycleSummarised => stats.total_dates_checked = Outcomes

\* C2 as claimed: checked = with results + without results + errors in every
\* state.
C2_SumAlways == stats.total_dates_checked = Outcomes

\* C3 as claimed: main never returns because a notification to the results
\* thread could not be delivered.
C3_SendFailureNotFatal == ~(pc = "exited" /\ exit_cause = "send")

\* C10: search_flights is called for the dates of the range in ascending order,
\* once each, and the call for a date is issued only when the handling of the
\* date before it, pacing delay included, is complete and no messaging call is
\* in flight; a cycle that reaches its summary has queried every date.
IsPrefix(a, b) == Len(a) <= Len(b) /\ a = SubSeq(b, 1, Len(a))

C10_DateOrder ==
    /\ \A i, j \in 1..Len(dates) : i < j => dates[i] < dates[j]
    /\ IsPrefix(search_log, dates)
    /\ IsPrefix(handled_log, search_log)
    /\ Len(search_log) <= Len(handled_log) + 1
    /\ pc = "searching" =>
          /\ Len(search_log) = Len(handled_log) + 1
          /\ search_log[Len(search_log)] = dates[date_idx]
          /\ ch_st = "idle" /\ g_st = "idle"
    /\ (/\ ch_st # "idle" \/ g_st # "idle"
        /\ pc \notin {"startup_status", "cycle_start_status", "final_status"}) =>
          Len(search_log) = Len(handled_log) + 1
    /\ CycleSummarised => (search_log = dates /\ handled_log = dates)

C10_Witness ==
    /\ pc = "searching" /\ date_idx = 2
    /\ handled_log = <<dates[1]>>
    /\ stats.flight_dates # <<>>
    /\ stats.errors_encountered = 0

(***************************************************************************)
(* Properties of was_message_sent_recently (Spec).                         *)
(***************************************************************************)
\* pat occurs in text as a run of consecutive tokens
Occurs(pat, text) ==
    \E i \in 1..(Len(text) + 1) :
        \A j \in 1..Len(pat) : i + j - 1 <= Len(text) /\ text[i + j - 1] = pat[j]

\* one of the HistoryLimit most recent messages of the results topic has a
\* text, as the backend returns it, in which cand occurs
HasRecent(cand) ==
    \E k \in 1..Len(found_thread) :
        /\ Len(found_thread) - k < HistoryLimit
        /\ Occurs(cand, SelectSeq(found_thread[k].text, LAMBDA tok : tok \notin {"<b>", "</b>"}))

GuardJustReturned == g_last.res # ""

AllDatesFailed ==
    /\ stats.errors_encountered = Len(dates)
    /\ stats.total_dates_checked = Len(dates)
    /\ stats.dates_with_flights = 0 /\ stats.dates_without_flights = 0

\* C12: with search_flights failing for every date (FailingSpec), main never
\* returns, every cycle reaches its end with errors = dates checked = number
\* of dates and sleeps, and the next cycle starts.
C12_AllFailingCycles ==
    /\ [](pc # "exited")
    /\ \A c \in 1..MaxCycles :
          (cycle = c) ~> (cycle = c /\ pc = "sleeping" /\ AllDatesFailed
                            /\ last_sleep = check_interval)
    /\ \A c \in 1..(MaxCycles - 1) :
          (cycle = c /\ pc = "sleeping") ~> (cycle = c + 1 /\ stats.errors_encountered = 0)

C12_Witness ==
    /\ cycle = 2 /\ pc = "sleeping"
    /\ Len(dates) = 2 /\ AllDatesFailed
    /\ enable_telegram /\ status_message_id # NoneOpt

\* C13 as claimed: a date answered with success=false is counted as an error
\* and, the channel being enabled, an error notification is sent for it.
C13_SuccessFalseIsError ==
    search_outcome.kind = "nosuccess" =>
        /\ stats.errors_encountered >= 1
        /\ enable_telegram => tally.err_notes = 1

\* the handling of a date whose search returned Err, and its end
SearchFailed == search_outcome.kind = "err"
DateHandled == pc = "pacing"

\* C14 as claimed: when search_flights fails and the channel is enabled, the
\* date's handling makes one error notification and one status edit.
C14_NotifyAndRevise ==
    (enable_telegram /\ SearchFailed /\ DateHandled) =>
        /\ tally.err_notes = 1
        /\ tally.date_edits = 1

\* C14 as amended: when search_flights fails and the channel is enabled, the
\* failure adds 1 to errors_encountered and changes no other counter; one
\* error notification is sent to the operational topic, its result ignored;
\* then the status message is edited once if it was created at startup, and
\* not at all if it was not; then the pacing delay begins.  Nothing is looked
\* up in, or sent to, the results topic for that date.
C14_FailedDate ==
    /\ [][(pc = "searching" /\ search_outcome'.kind = "err") =>
            /\ stats' = [stats EXCEPT !.errors_encountered = @ + 1]
            /\ enable_telegram =>
                  /\ pc' = "error_notify" /\ ch_kind' = "send" /\ ch_st' = "calling"
                  /\ ch_req'.topic = DevlogsTopic]_vars
    /\ [][(SearchFailed /\ search_outcome' = search_outcome) => stats' = stats]_vars
    /\ [](SearchFailed => pc \in {"error_notify", "progress_status", "pacing"})
    /\ []((SearchFailed /\ pc = "progress_status") =>
            /\ tally.err_notes = 1 /\ tally.date_edits = 1
            /\ ch_kind = "edit" /\ ch_req.message_id = status_message_id)
    /\ []((enable_telegram /\ SearchFailed /\ DateHandled) =>
            /\ tally.err_notes = 1
            /\ tally.date_edits = (IF IsSome(status_message_id) THEN 1 ELSE 0)
            /\ tally.guards = 0
            /\ tally.alerts + tally.per_flight + tally.more + tally.enrich = 0)

C14_Witness ==
    /\ enable_telegram /\ SearchFailed /\ DateHandled
    /\ date_idx = 2 /\ stats.errors_encountered = 1
    /\ tally.err_notes = 1 /\ tally.date_edits = 1

(***************************************************************************)
(* Properties of the status message (Spec).                                *)
(***************************************************************************)
StatusPoints == {"cycle_start_status", "progress_status", "final_status"}
ReporterActive == enable_telegram /\ IsSome(status_message_id)
CreatingStatus == ch_kind = "send_with_id" /\ ch_req.topic = DevlogsTopic

\* C15: status_message_id is set at most once, by the startup call, and never
\* changes afterwards; no other call creates a status message; every status
\* update is an update_telegram_message on that id.
C15_OneStatusMessage ==
    /\ [][IsSome(status_message_id) => status_message_id' = status_message_id]_vars
    /\ [][status_message_id' # status_message_id =>
            (pc = "startup_status" /\ cycle = 0 /\ CreatingStatus)]_vars
    /\ [](CreatingStatus => (pc = "startup_status" /\ cycle = 0 /\ status_message_id = NoneOpt))
    /\ [](pc \in StatusPoints <=> ch_kind = "edit")
    /\ [](ch_kind = "edit" =>
            /\ IsSome(status_message_id)
            /\ ch_req.message_id = status_message_id
            /\ ch_req.topic = DevlogsTopic)

C15_Witness ==
    /\ cycle = 2 /\ pc = "final_status"
    /\ ch_kind = "edit" /\ ch_req.message_id = Some("1")
    /\ stats.errors_encountered = 1 /\ tally.edits = 3

\* C16: when the startup call does not yield an id, status_message_id stays
\* None in every cycle, the startup call is not made again, no
\* update_telegram_message is ever made, and main goes on to its cycles.
C16_InertReporter ==
    /\ [][cycle >= 1 => status_message_id' = status_message_id]_vars
    /\ [][(pc = "startup_status" /\ pc' # pc) => (cycle' = 1 /\ pc' # "exited")]_vars
    /\ []((cycle >= 1 /\ status_message_id = NoneOpt) =>
            /\ ch_kind # "edit" /\ pc \notin StatusPoints
            /\ ~CreatingStatus
            /\ tally.edits = 0)

C16_Witness ==
    /\ enable_telegram /\ status_message_id = NoneOpt
    /\ cycle = 2 /\ pc = "sleeping"
    /\ stats.total_dates_checked = 2 /\ stats.errors_encountered = 1

\* C17: with the status message created, a cycle makes one edit before its
\* first search_flights call, one after each date whose search returned Err,
\* and one after its last date: 2 + errors edits when it reaches its end.
C17_EditsPerCycle ==
    ReporterActive =>
        /\ pc = "cycle_start_status" => (tally.edits = 1 /\ search_log = <<>>)
        /\ pc = "searching" => tally.edits = 1 + stats.errors_encountered
        /\ pc = "progress_status" =>
              /\ search_outcome.kind = "err"
              /\ tally.edits = 1 + stats.errors_encountered
        /\ pc = "pacing" =>
              /\ tally.edits = 1 + stats.errors_encountered
              /\ tally.date_edits = (IF search_outcome.kind = "err" THEN 1 ELSE 0)
        /\ pc = "final_status" =>
              /\ search_log = dates /\ handled_log = dates
              /\ tally.edits = 2 + stats.errors_encountered
        /\ pc = "sleeping" => tally.edits = 2 + stats.errors_encountered

C17_Witness ==
    /\ ReporterActive /\ pc = "sleeping" /\ cycle = 2
    /\ stats.errors_encountered = 2 /\ tally.edits = 4

\* C18 as claimed: with an empty range a cycle calls search_flights for no
\* date, leaves every counter at 0, and has made the cycle-start edit and the
\* final edit when it sleeps.
C18_AlwaysPublishes ==
    (dates = <<>> /\ pc = "sleeping") =>
        /\ search_log = <<>> /\ stats = NewStats
        /\ tally.edits = 2

\* C18 as amended: with an empty range a cycle calls search_flights for no
\* date and leaves every counter at 0; if the status message was created it
\* still makes the cycle-start edit and the final edit, if not it makes no
\* edit; in both cases it then sleeps check_interval.
C18_EmptyRange ==
    /\ [](dates = <<>> =>
            /\ search_log = <<>> /\ stats = NewStats
            /\ pc \in {"init", "startup_status", "cycle_start_status", "final_status", "sleeping"}
            /\ tally.guards = 0 /\ tally.err_notes = 0
            /\ pc = "sleeping" =>
                  /\ last_sleep = check_interval
                  /\ tally.edits = (IF ReporterActive THEN 2 ELSE 0))
    /\ [][(dates = <<>> /\ pc = "cycle_start_status" /\ pc' # pc) => pc' = "final_status"]_vars
    /\ [][(dates = <<>> /\ pc = "final_status" /\ pc' # pc) => pc' = "sleeping"]_vars
    /\ [][(dates = <<>> /\ pc = "sleeping" /\ pc' # pc) =>
            pc' = (IF ReporterActive THEN "cycle_start_status" ELSE "sleeping")]_vars

C18_Witness ==
    /\ dates = <<>> /\ ReporterActive
    /\ cycle = 2 /\ pc = "sleeping" /\ tally.edits = 2

(***************************************************************************)
(* Properties of the handling of one date (Spec).                          *)
(***************************************************************************)
Delivered == tally.alerts + tally.per_flight + tally.more + tally.enrich

\* the date's search returned n flights, 1 <= n <= VerboseCap, no lookup said
\* duplicate, and the handling of the date is complete
FreshResultsHandled ==
    /\ search_outcome.kind = "some" /\ search_outcome.n <= VerboseCap
    /\ tally.suppressed = 0
    /\ DateHandled

EmptyResult == search_outcome.kind \in {"empty", "none"}

C20_EmptyDate ==
    /\ [][(pc = "searching" /\ search_outcome'.kind \in {"empty", "none"}) =>
            /\ stats' = [stats EXCEPT !.dates_without_flights = @ + 1]
            /\ pc' = "pacing"
            /\ found_thread' = found_thread]_vars
    /\ [](EmptyResult =>
            /\ pc = "pacing"
            /\ ch_st = "idle" /\ g_st = "idle"
            /\ tally.guards = 0 /\ Delivered = 0
            /\ tally.err_notes = 0 /\ tally.date_edits = 0)

C20_Witness ==
    /\ search_outcome.kind = "none" /\ pc = "pacing"
    /\ date_idx = 2 /\ stats.dates_without_flights = 2
    /\ found_thread = <<>>

(***************************************************************************)
(* Properties of the per-flight notifications of one date (Spec).          *)
(***************************************************************************)
ResultsHandled == search_outcome.kind = "some" /\ DateHandled
OverCap == search_outcome.n > VerboseCap

MultiTopicDone == pc = "multi_topic_done"

\* C22: the multi-topic send calls send_telegram_notification once for every
\* topic of its list, in list order, whatever the results: after a failed
\* send it goes on with the topics that follow, and it returns only when the
\* whole list has been tried.
C22_EveryTopicInOrder ==
    /\ Len(topic_log) <= Len(topic_ids)
    /\ \A i \in 1..Len(topic_log) : topic_log[i].topic = topic_ids[i]
    /\ pc = "multi_topic_send" =>
          /\ topic_idx = Len(topic_log) + 1 /\ topic_idx <= Len(topic_ids)
          /\ ch_kind = "send" /\ ch_req.topic = topic_ids[topic_idx]
    /\ MultiTopicDone => (Len(topic_log) = Len(topic_ids) /\ ch_st = "idle")

C22_Witness ==
    /\ MultiTopicDone /\ Len(topic_ids) = MaxTopics
    /\ ~topic_log[1].ok /\ topic_log[MaxTopics].ok

(***************************************************************************)
(* Properties of the cycle as a whole (Spec).                              *)
(***************************************************************************)
\* the polling interval of hours_interval hours, in milliseconds
HoursIntervalMs == hours_interval * 3600 * 1000

\* C23 as claimed: the sleep that follows a cycle's final summary lasts the
\* polling interval of 6 hours (21600 seconds).
C23_SixHourSleep == pc = "sleeping" => last_sleep = HoursIntervalMs

\* C24 as claimed: a failure inside was_message_sent_recently never
\* terminates the process.
C24_GuardFailureNotFatal == ~(pc = "exited" /\ exit_cause = "dedup")

\* C26 as claimed: for each of the first 5 results of a date a lookup is made
\* for that result's own text, whether or not another notification of the
\* date was suppressed: a handled date with n results has had its alert's
\* lookup and min(n, 5) per-flight lookups.
C26_LookupPerFlight ==
    ResultsHandled => tally.guards >= 1 + Min(search_outcome.n, VerboseCap)

\* C27 as claimed: a date with one or more results is counted once as a date
\* with flights and never as a date without flights (stated for the first
\* date of a cycle, before which both counters are 0).
C27_CountedOnce ==
    (ResultsHandled /\ date_idx = 1) =>
        (stats.dates_with_flights = 1 /\ stats.dates_without_flights = 0)

(***************************************************************************)
(* Properties of the flights-found alert across cycles (Spec).             *)
(***************************************************************************)
IsRecent(k) == k \in 1..Len(found_thread) /\ Len(found_thread) - k < HistoryLimit

\* the flights-found alert for n flights on day d was delivered and is among
\* the HistoryLimit most recent messages of the results topic
AlertRecent(n, d) == \E k \in 1..Len(found_thread) :
    IsRecent(k) /\ found_thread[k].text = FoundAlertText(n, d)

AlertLookupReturned ==
    /\ GuardJustReturned
    /\ search_outcome.kind = "some"
    /\ g_last.cand = FoundCandidate(search_outcome.n, dates[date_idx])

FirstSearchStats == [NewStats EXCEPT !.total_dates_checked = 1]

\* C28: every cycle starts from counters that are all 0 and an empty
\* flight_dates list: they are so while the cycle-start status update is
\* made, and the first search of the cycle is called with nothing counted but
\* the date being checked; a range without dates ends its cycle with them.
C28_ResetAtCycleStart ==
    /\ [](pc = "cycle_start_status" => (stats = NewStats /\ search_log = <<>>))
    /\ []((pc = "searching" /\ date_idx = 1) =>
            (stats = FirstSearchStats /\ search_log = <<1>>))
    /\ [][cycle' # cycle =>
            /\ cycle' = cycle + 1
            /\ \/ pc' = "cycle_start_status" /\ stats' = NewStats
               \/ pc' = "searching" /\ date_idx' = 1 /\ stats' = FirstSearchStats
               \/ pc' \in {"final_status", "sleeping"} /\ dates = <<>> /\ stats' = NewStats]_vars

C28_Witness ==
    /\ cycle = 2 /\ pc = "cycle_start_status"
    /\ found_thread # <<>>
    /\ stats = NewStats

(***************************************************************************)
(* Properties of the texts published for a failed date (Spec).             *)
(***************************************************************************)
FailedDateText == formatted_date(dates[date_idx])
ErrorKinds == {"transport", "status", "decode"}
CarriesErrorText(text) == \E e \in ErrorKinds : Occurs(<<e>>, text)

NonFatalPoints == {"error_notify"} \cup StatusPoints
FailedNonFatal == ch_last.at \in NonFatalPoints /\ ~ch_last.ok

\* C30: when the error notification or a status edit (cycle start, after an
\* error, cycle end) returns an error, the process does not exit and main goes
\* on with the step that follows it: the status edit after a failed error
\* notification, the pacing delay after a failed progress edit, the first date
\* (or the end of the cycle) after a failed cycle-start edit, the sleep after a
\* failed final edit.  The return of these calls, failed or not, leaves
\* status_message_id and the statistics as they were: the only change is the
\* count of the next date when its search starts in the same step.
C30_NonFatal ==
    /\ [](FailedNonFatal =>
            /\ pc # "exited" /\ exit_cause = ""
            /\ ch_last.at = "error_notify" =>
                  /\ pc \in {"progress_status", "pacing"}
                  /\ pc = "progress_status" <=> IsSome(status_message_id)
            /\ ch_last.at = "progress_status" => pc = "pacing"
            /\ ch_last.at = "cycle_start_status" =>
                  pc = (IF dates = <<>> THEN "final_status" ELSE "searching")
            /\ ch_last.at = "final_status" => pc = "sleeping")
    /\ [][ch_last'.at \in NonFatalPoints =>
            /\ status_message_id' = status_message_id
            /\ stats' = (IF pc' = "searching"
                            THEN [stats EXCEPT !.total_dates_checked = @ + 1]
                            ELSE stats)]_vars

C30_Witness ==
    /\ ch_last = [at |-> "error_notify", ok |-> FALSE]
    /\ pc = "progress_status" /\ IsSome(status_message_id)
    /\ stats.errors_encountered = 1

(***************************************************************************)
(* Properties of the loop of was_message_sent_recently (Spec).             *)
(***************************************************************************)
\* the text the backend holds, mark-up removed, for the k-th entry of the
\* history list (the most recent message is the first entry)
EntryText(k) ==
    SelectSeq(found_thread[Len(found_thread) - k + 1].text,
              LAMBDA tok : tok \notin {"<b>", "</b>"})

\* C31: the lookup calls getMessage for the entries of the history list one
\* by one in the list's order; no entry read before the current one contains
\* the candidate; the lookup returns true at the first entry whose fetched
\* text contains the candidate, without a getMessage call for the entries
\* after it.
C31_ShortCircuit ==
    /\ [](g_st = "fetching" =>
            /\ g_idx \in 1..Len(g_ids)
            /\ Len(g_ids) = Len(found_thread)
            /\ \A i \in 1..Len(g_ids) : g_ids[i] = found_thread[Len(found_thread) - i + 1].id
            /\ ~g_skipped => \A j \in 1..(g_idx - 1) : ~Occurs(g_cand, EntryText(j)))
    /\ [][g_st = "fetching" =>
            \/ /\ g_st' = "fetching" /\ pc' = pc
               /\ g_idx' = g_idx + 1 /\ g_ids' = g_ids /\ g_cand' = g_cand
            \/ /\ GuardJustReturned'
               /\ g_last'.cand = g_cand
               /\ g_last'.res = "true" =>
                     (g_last'.idx = g_idx /\ Occurs(g_cand, EntryText(g_idx)))
               /\ g_last'.res = "false" => g_last'.idx = Len(g_ids) + 1]_vars
    /\ [](g_last.res = "true" =>
            /\ g_last.idx \in 1..Len(found_thread)
            /\ Occurs(g_last.cand, EntryText(g_last.idx))
            /\ ~g_last.skipped =>
                  \A j \in 1..(g_last.idx - 1) : ~Occurs(g_last.cand, EntryText(j)))

C31_Witness ==
    /\ g_last.res = "true" /\ g_last.idx = 2
    /\ Len(found_thread) >= 3
    /\ ~g_last.skipped

(***************************************************************************)
(* Properties of send_telegram_notification_with_id (SpecDelivery).        *)
(***************************************************************************)
\* a success answer to send_telegram_notification_with_id that cannot be
\* decoded, or that holds no result.message_id
WithoutId(resp) ==
    /\ ch_kind = "send_with_id"
    /\ Succeeded(resp)
    /\ ~(resp.body.json /\ resp.mid)

\* C32: a success answer to send_telegram_notification_with_id that cannot be
\* decoded or holds no message id is the last answer of the call: the call
\* has returned an error and no id, without the sleep that follows a success
\* and without a further underlying call.
C32_NoIdIsFailure ==
    \A i \in 1..Len(resps) :
        WithoutId(resps[i]) =>
            /\ i = Len(resps)
            /\ Returned /\ ~ch_result.ok
            /\ ch_result.err = (IF resps[i].body.json THEN "no_message_id" ELSE "decode")
            /\ calls = i
            /\ Len(slept) = i - 1
            /\ \A j \in 1..Len(slept) : slept[j].why = "backoff"

C32_Witness ==
    /\ Returned /\ Len(resps) = 2
    /\ RateLimited(resps[1])
    /\ WithoutId(resps[2]) /\ resps[2].body.json
    /\ ch_result.err = "no_message_id"

(***************************************************************************)
(* Properties of the summary and of flight_dates (Spec).                   *)
(***************************************************************************)
\* C33 as claimed: in the final summary every pair of flight_dates is listed
\* with a link whose message part is the id recorded for the date: the text
\* holds ".../{id}>{date}" for each pair (date, id).
C33_LinkNamesMessage ==
    pc = "final_status" =>
        \A i \in 1..Len(stats.flight_dates) :
            Occurs(<<"/", stats.flight_dates[i][2], ">">> \o stats.flight_dates[i][1],
                   ch_req.text)

\* the position in search_log of the date whose text is in the i-th pair
PairDates(i) ==
    {a \in 1..Len(search_log) : stats.flight_dates[i][1] = formatted_date(search_log[a])}

\* C34: within a cycle flight_dates holds at most one pair per date, only
\* dates searched in this cycle and counted in dates_with_flights, in the
\* order of the dates; it is emptied when a cycle begins and a pair is added
\* only when the flights-found alert of the date being handled has been
\* accepted by the backend for the results topic: the pair holds that date
\* and the id of that message, the last of the topic.
C34_PairsPerDate ==
    /\ [](/\ Len(stats.flight_dates) <= stats.dates_with_flights
          /\ \A i \in 1..Len(stats.flight_dates) : PairDates(i) # {}
          /\ \A i, j \in 1..Len(stats.flight_dates) :
                i < j => \A a \in PairDates(i), b \in PairDates(j) :
                            search_log[a] < search_log[b])
    /\ [][stats'.flight_dates # stats.flight_dates =>
            \/ cycle' = cycle + 1 /\ stats'.flight_dates = <<>>
            \/ /\ cycle' = cycle
               /\ pc = "found_send" /\ ch_st = "cooldown" /\ tally.alerts = 1
               /\ found_thread # <<>> /\ found_thread' = found_thread
               /\ found_thread[Len(found_thread)].text
                     = FoundAlertText(search_outcome.n, dates[date_idx])
               /\ stats'.flight_dates =
                     Append(stats.flight_dates,
                            <<formatted_date(dates[date_idx]),
                              found_thread[Len(found_thread)].id>>)]_vars

C34_Witness ==
    /\ cycle = 2 /\ Len(stats.flight_dates) = 2
    /\ stats.dates_with_flights = 2
    /\ Len(found_thread) >= 4

(***************************************************************************)
(* Properties of one delivery call after a success answer (SpecDelivery).  *)
(***************************************************************************)
\* C35: in one call of send_telegram_notification,
\* send_telegram_notification_with_id or update_telegram_message a success
\* answer is the last answer: no underlying call is issued after it, the call
\* sleeps the cooldown and returns, or returns an error at once, and the
\* results topic has received at most one message from the call.
C35_SuccessIsLast ==
    /\ \A i \in 1..Len(resps) :
          Succeeded(resps[i]) =>
              /\ i = Len(resps) /\ calls = i
              /\ ch_st \in {"cooldown", "returned"}
              /\ ch_st = "cooldown" => ch_result.ok
    /\ Len(found_thread) <= 1
    /\ Len(found_thread) = 1 =>
          (Len(resps) >= 1 /\ Succeeded(resps[Len(resps)]) /\ ch_kind # "edit")

C35_Witness ==
    /\ Returned /\ ch_result.ok /\ ch_kind = "send"
    /\ Len(resps) = 3 /\ Succeeded(resps[3])
    /\ Len(found_thread) = 1

(***************************************************************************)
(* Properties of the program with the channel disabled (Spec).             *)
(***************************************************************************)
\* C36 as claimed: with enable_telegram false no call to the messaging
\* backend is ever in progress: no send or edit, no getForumTopicMessages and
\* no getMessage.
C36_NoBackendCall == ~enable_telegram => (ch_st = "idle" /\ g_st = "idle")

(***************************************************************************)
(* Properties of total_dates_checked (Spec).                               *)
(***************************************************************************)
\* C37: total_dates_checked never exceeds the number of dates of the range
\* and counts the dates whose search was called in this cycle; when the date
\* loop is over it equals the number of dates, and the final status edit
\* shows the number of dates followed by the statistics with that same count.
C37_CheckedWithinRange ==
    /\ stats.total_dates_checked <= Len(dates)
    /\ pc # "init" => stats.total_dates_checked = Len(search_log)
    /\ CycleSummarised => stats.total_dates_checked = Len(dates)
    /\ pc = "final_status" =>
          Occurs(<<"dates", ToString(Len(dates)),
                   "checked", ToString(stats.total_dates_checked)>>, ch_req.text)

C37_Witness ==
    /\ pc = "final_status" /\ cycle = 2
    /\ Len(dates) = MaxDates /\ stats.total_dates_checked = MaxDates
    /\ stats.errors_encountered >= 1

(***************************************************************************)
(* Properties of suppression across dates (Spec).                          *)
(***************************************************************************)
\* C38 as claimed, for the first cycle, in which the messages published for
\* the date being handled are the last Delivered messages of the results
\* topic: a lookup returns true only when one of those messages contains the
\* candidate.
C38_SameDateOnly ==
    (cycle = 1 /\ g_last.res = "true") =>
        \E k \in 1..Delivered : Occurs(g_last.cand, EntryText(k))

====
